---- MODULE Spec2Model ----
(***************************************************************************)
(* Roadbyte Racer (4a_Racing_RoadbyteRacer): the navigation engine          *)
(* (solution/Engine.py), the lookahead planner (solution/AI.py), the track  *)
(* codec (generator/trackgen.py, solution/Loader.py) and the dodge-counting *)
(* variant (student/Engine.py, student/Loader.py).                          *)
(*                                                                         *)
(* Rows are sequences of one-character strings; Python's 0-based column c   *)
(* is index c + 1 of the sequence.                                          *)
(***************************************************************************)
EXTENDS Integers, Sequences, FiniteSets, TLC

VARIABLES
    \* ---- Engine (solution/Engine.py) ----
    stream,       \* the rows the iterable yields, in order
    stream_error, \* the error the iterable raises after its last row, "" when none
    lookahead,    \* Engine.lookahead
    start_arg,    \* the start_x argument given to Engine.__init__
    start_x,      \* Engine.start_x
    pc,           \* position in run_game: "prime", "running", "done"; "idle" when unused
    buffer,       \* run_game's buffer (the lookahead window)
    it,           \* number of rows already pulled from the iterator
    width,        \* run_game's width
    x,            \* the car column
    movements,    \* run_game's movements counter
    path,         \* run_game's path list
    row_index,    \* run_game's row_index
    ticks,        \* number of loop iterations executed
    outcome,      \* which return statement ended the run
    handed,       \* the list the last planner call was given, as the planner left it
    max_depth,    \* AI.max_depth
    \* ---- AI.choose_move as a function under test ----
    visible_rows, \* the window handed to choose_move
    car_x,        \* the column handed to choose_move
    ai_pc,        \* "call" before the call, "returned" after; "idle" when unused
    ai_result,    \* what the call produced
    \* ---- Track codec (generator/trackgen.py, solution/Loader.py) ----
    grid,         \* the rows given to encrypt_trk_bytes
    seed,         \* the seed of the track set
    filename,     \* the name of the .trk.enc file
    sibling,      \* TRUE when the plaintext .trk lies next to the .trk.enc
    lines,        \* the lines of a plaintext .trk file given to the Loader
    tamper,       \* how the .trk.enc file was damaged after it was written
    codec_pc,     \* "encrypt", "decode", "done"; "idle" when unused
    data,         \* the bytes of the .trk.enc file
    decoded,      \* the rows the decode stream yielded
    decode_error, \* the error the decode stream raised, "" when none
    s_decoded,    \* the rows the student Loader's decode stream yielded
    s_decode_error, \* the error the student Loader's decode stream raised
    files,        \* the .trk.enc files of the tracks directory: name -> bytes
    decodes,      \* the decode streams opened on one Loader, one record each
    \* ---- Student engine (student/Engine.py) ----
    s_stream,     \* the rows the iterable given to run_game yields, in order
    s_start_x,    \* the start_x argument of run_game
    s_pc,         \* position in run_game: "prefill", "running", "done"; "idle" when unused
    s_buffer,     \* run_game's buffer
    s_it,         \* number of rows already pulled from the iterator
    s_x,          \* run_game's x
    dodges,       \* run_game's dodges counter
    s_cols,       \* history: the column after the move of each tick
    s_outcome     \* which statement ended the run

vars == <<stream, stream_error, lookahead, start_arg, start_x, pc, buffer, it, width, x,
          movements, path, row_index, ticks, outcome, handed, max_depth,
          visible_rows, car_x, ai_pc, ai_result,
          grid, seed, filename, sibling, lines, tamper, codec_pc, data, decoded,
          decode_error, s_decoded, s_decode_error, files, decodes,
          s_stream, s_start_x, s_pc, s_buffer, s_it, s_x, dodges, s_cols, s_outcome>>

engineVars == <<stream, stream_error, lookahead, start_arg, start_x, pc, buffer, it, width, x,
                movements, path, row_index, ticks, outcome, handed>>
aiVars == <<visible_rows, car_x, ai_pc, ai_result>>
studentVars == <<s_stream, s_start_x, s_pc, s_buffer, s_it, s_x, dodges, s_cols, s_outcome>>
codecVars == <<grid, seed, filename, sibling, lines, tamper, codec_pc, data, decoded,
               decode_error, s_decoded, s_decode_error, files, decodes>>

(***************************************************************************)
(* Bounds of the model                                                     *)
(***************************************************************************)
MaxRows == 3          \* longest stream
MaxLookahead == 3     \* largest lookahead given to the Engine
MaxWindow == 3        \* longest window handed to choose_move on its own
MaxDepth == 3         \* largest AI.max_depth
MaxStreamRows == 2    \* longest grid of the files decoded by several streams
NStreams == 2         \* number of decode streams opened on one Loader
MaxStops == 2         \* most pulls made on a stream after it has ended
MaxGridRows == 5      \* most rows of a grid given to the codec

(***************************************************************************)
(* Program constants                                                       *)
(***************************************************************************)
EngineW == 10
EngineH == 5

Max(a, b) == IF a >= b THEN a ELSE b
Min(a, b) == IF a <= b THEN a ELSE b
Abs(a) == IF a < 0 THEN -a ELSE a

(***************************************************************************)
(* Input families.  A row of width w is one of: all free, all finish,      *)
(* a single obstacle at column c, or obstacles everywhere except column c. *)
(***************************************************************************)
FreeRow(w) == [i \in 1..w |-> "."]
FinishRow(w) == [i \in 1..w |-> "F"]
WallRow(w, c) == [i \in 1..w |-> IF i = c + 1 THEN "#" ELSE "."]
GapRow(w, c) == [i \in 1..w |-> IF i = c + 1 THEN "." ELSE "#"]

\* the obstacle columns used for a width
Marks(w) == {c \in {(w \div 2) - 1, w - 2} : c >= 0 /\ c < w}

RowSet(w) == {FreeRow(w), FinishRow(w)}
             \cup {WallRow(w, c) : c \in Marks(w)}
             \cup {GapRow(w, c) : c \in Marks(w)}

SeqsUpTo(S, n) == UNION {[1..k -> S] : k \in 0..n}

(***************************************************************************)
(* Engine (solution/Engine.py)                                             *)
(***************************************************************************)
\* widths of the streams fed to the engine; 0 is the stream of empty rows
StreamWidths == {0, 3, EngineW}

\* the rows an engine stream is made of
EngineRows(w) == {FreeRow(w), FinishRow(w), WallRow(w, w \div 2), GapRow(w, w \div 2)}

Streams == UNION {SeqsUpTo(EngineRows(w), MaxRows) : w \in StreamWidths}

\* start_x arguments given to the constructor
StartArgs == {0, 1, EngineW - 1, EngineW}

\* What one planner call can produce: int(ai_func(...)) is an integer, or the
\* call (or the conversion) raises.
PlannerResult(raised, value) == [raised |-> raised, value |-> value, edit |-> "none"]
PlannerResults == {PlannerResult(FALSE, v) : v \in -2..2} \cup {PlannerResult(TRUE, 0)}

\* Engine.__init__: self.start_x
InitStartX(arg) == IF 0 < arg /\ arg < EngineW THEN arg ELSE EngineW \div 2

\* Engine._is_free
IsFree(ch) == ch = "."

\* Engine._is_goal
IsGoal(ch) == ch = "F"

\* run_game: the value of move after the try/except
RawMove(r) == IF r.raised THEN 0 ELSE r.value

\* run_game: path after the try/except (the append is skipped when the call raises)
PathAfter(p, r) == IF r.raised THEN p ELSE Append(p, r.value)

\* no coercion: the value the planner returned is applied as it is
CoerceNone(move) == move

\* run_game: if move < -1 or move > 1: move = 0
CoerceMove(move) == IF move < -1 \/ move > 1 THEN 0 ELSE move

\* the clamp without its lower bound
ClampXNoFloor(w, cx, move) == Min(w - 1, cx + move)

\* run_game: x = max(0, min(width - 1, x + move))
ClampX(w, cx, move) == Max(0, Min(w - 1, cx + move))

\* Python's row[i]: negative indices count from the end; "!" stands for IndexError
RowAt(row, i) ==
    IF 0 <= i /\ i < Len(row) THEN row[i + 1]
    ELSE IF i < 0 /\ -i <= Len(row) THEN row[Len(row) + i + 1]
    ELSE "!"

\* the iterator that never advances
NextItStuck(i) == i

\* next(it): the iterator's position after a row was pulled
NextIt(i) == i + 1

\* priming that keeps the first row only
PrimedFirstRow(rows, h) == SubSeq(rows, 1, 1)

\* run_game: the window after priming, the first row and up to lookahead - 1
\* further rows of a non-empty stream
PrimedRows(rows, h) == SubSeq(rows, 1, Min(h, Len(rows)))

\* what a planner can do to the list it is given before it returns or raises
WindowEdits == {"none", "truncate", "insert", "replace"}

\* the list after the planner's edit: del window[1:], window.insert(0, row),
\* window[0] = row, the row being all obstacles
Edited(win, e) ==
    LET blocked == [k \in 1..Len(win[1]) |-> "#"]
    IN  CASE e = "none" -> win
          [] e = "truncate" -> SubSeq(win, 1, 1)
          [] e = "insert" -> << blocked >> \o win
          [] e = "replace" -> << blocked >> \o Tail(win)

\* a planner call that also edits the list it was given
EditingPlannerResults ==
    {[r EXCEPT !.edit = e] : r \in PlannerResults, e \in WindowEdits}

\* the engine's list when the planner was given the list itself
BufferAliased(buf, after) == after

\* run_game: ai_func(buffer[:], x): the planner was given a copy, the
\* engine's list is as it was before the call
BufferAfterCall(buf, after) == buf

\* the row at the far end of the window
LastRow(buf) == buf[Len(buf)]

\* run_game: current_row = buffer[0]
CurrentRow(buf) == buf[1]

(***************************************************************************)
(* AI (solution/AI.py)                                                     *)
(***************************************************************************)
\* AI.__init__: self.width
AIWidth == EngineW

\* choose_move: best_cost = float("inf"); a cost never exceeds the depth
Inf == MaxDepth + 1

\* What _search_branch produces: a cost, None, or an IndexError that propagates
Cost(c) == [kind |-> "cost", cost |-> c]
None == [kind |-> "none", cost |-> 0]
Raised == [kind |-> "raise", cost |-> 0]

RECURSIVE SearchBranch(_, _, _, _, _)
\* AI._search_branch, with self.max_depth = depthLimit
SearchBranch(rows, depth, cur_x, cost_so_far, depthLimit) ==
    IF depth >= depthLimit THEN Cost(cost_so_far)
    ELSE IF depth >= Len(rows) THEN Raised      \* visible_rows[depth]: IndexError
    ELSE
      LET row == rows[depth + 1]
          Step(best, move) ==
              IF best.kind = "raise" THEN best
              ELSE LET nx == cur_x + move IN
                   IF nx < 0 \/ nx >= AIWidth THEN best
                   ELSE IF nx >= Len(row) THEN Raised       \* row[nx]: IndexError
                   ELSE IF row[nx + 1] = "#" THEN best
                   ELSE LET new_cost == cost_so_far + (IF move # 0 THEN 1 ELSE 0)
                            sub == SearchBranch(rows, depth + 1, nx, new_cost, depthLimit)
                        IN  IF sub.kind = "raise" THEN Raised
                            ELSE IF sub.kind = "none" THEN best
                            ELSE IF best.kind = "none" \/ sub.cost < best.cost
                                 THEN sub
                                 ELSE best
      IN  Step(Step(Step(None, -1), 0), 1)

\* a comparison that never prefers the candidate
NeverBetter(candidate_cost, candidate_move, best_cost, best_move, cx) == FALSE

\* AI._is_better_move; the distances to the centre (self.width - 1) / 2.0 are
\* compared doubled, which keeps them integers
IsBetterMove(candidate_cost, candidate_move, best_cost, best_move, cx) ==
    IF candidate_cost < best_cost THEN TRUE
    ELSE IF candidate_cost > best_cost THEN FALSE
    ELSE IF candidate_move = 0 /\ best_move # 0 THEN TRUE
    ELSE IF best_move = 0 /\ candidate_move # 0 THEN FALSE
    ELSE LET cand_dist2 == Abs(2 * (cx + candidate_move) - (AIWidth - 1))
             best_dist2 == Abs(2 * (cx + best_move) - (AIWidth - 1))
         IN  cand_dist2 < best_dist2

\* AI.choose_move, with self.max_depth = depthLimit: the move returned, or raised
ChooseMove(rows, cx, depthLimit) ==
    IF Len(rows) = 0 THEN PlannerResult(FALSE, 0)
    ELSE
      LET w == Len(rows[1])
          Step(acc, first_move) ==
              IF acc.raised THEN acc
              ELSE LET new_x == cx + first_move IN
                   IF new_x < 0 \/ new_x >= w THEN acc
                   ELSE IF rows[1][new_x + 1] = "#" THEN acc
                   ELSE LET initial_cost == IF first_move # 0 THEN 1 ELSE 0
                            total == SearchBranch(rows, 1, new_x, initial_cost, depthLimit)
                        IN  IF total.kind = "raise" THEN [acc EXCEPT !.raised = TRUE]
                            ELSE IF total.kind = "none" THEN acc
                            ELSE IF IsBetterMove(total.cost, first_move,
                                                 acc.best_cost, acc.best_move, cx)
                                 THEN [acc EXCEPT !.best_cost = total.cost,
                                                  !.best_move = first_move]
                                 ELSE acc
          start == [raised |-> FALSE, best_cost |-> Inf, best_move |-> 0]
          end == Step(Step(Step(start, -1), 0), 1)
      IN  IF end.raised THEN PlannerResult(TRUE, 0)
          ELSE PlannerResult(FALSE, end.best_move)

\* widths of the windows handed to choose_move on its own
AIWidths == {5, EngineW, 13}

\* the (window, column) pairs handed to choose_move on its own
AIInputs == UNION {SeqsUpTo(RowSet(w), MaxWindow) \X (0..(w - 1)) : w \in AIWidths}

EngineInit ==
    /\ stream \in Streams
    /\ stream_error = ""
    /\ lookahead \in 1..MaxLookahead
    /\ start_arg \in StartArgs
    /\ start_x = InitStartX(start_arg)
    /\ pc = "prime"
    /\ buffer = <<>>
    /\ it = 0
    /\ width = 0
    /\ x = 0
    /\ movements = 0
    /\ path = <<>>
    /\ row_index = 0
    /\ ticks = 0
    /\ outcome = "none"
    /\ handed = <<>>

StudentIdle ==
    /\ s_stream = <<>>
    /\ s_start_x = 3
    /\ s_pc = "idle"
    /\ s_buffer = <<>>
    /\ s_it = 0
    /\ s_x = 0
    /\ dodges = 0
    /\ s_cols = <<>>
    /\ s_outcome = "none"

AIIdle ==
    /\ visible_rows = <<>>
    /\ car_x = 0
    /\ ai_pc = "idle"
    /\ ai_result = PlannerResult(FALSE, 0)

\* run_game up to the simulation loop: prime the buffer
Prime ==
    /\ pc = "prime"
    /\ IF Len(stream) = 0 /\ stream_error # ""
       THEN \* next(it) raises the iterable's error out of run_game
            /\ pc' = "done"
            /\ outcome' = "StreamRaised"
            /\ UNCHANGED <<buffer, it, width, x>>
       ELSE IF Len(stream) = 0
       THEN \* next(it) raises StopIteration: return 0, []
            /\ pc' = "done"
            /\ outcome' = "Exhausted"
            /\ UNCHANGED <<buffer, it, width, x>>
       ELSE IF Len(stream[1]) = 0
       THEN \* width == 0: return 0, []
            /\ pc' = "done"
            /\ outcome' = "Exhausted"
            /\ it' = 1
            /\ UNCHANGED <<buffer, width, x>>
       ELSE IF Len(stream) < lookahead /\ stream_error # ""
       THEN \* a next(it) of the priming loop raises the iterable's error
            /\ pc' = "done"
            /\ outcome' = "StreamRaised"
            /\ it' = Len(stream)
            /\ buffer' = stream
            /\ width' = Len(stream[1])
            /\ UNCHANGED x
       ELSE /\ it' = Min(lookahead, Len(stream))
            /\ buffer' = PrimedRows(stream, lookahead)
            /\ width' = Len(stream[1])
            /\ x' = start_x
            /\ pc' = "running"
            /\ outcome' = "none"
    /\ UNCHANGED <<stream, stream_error, lookahead, start_arg, start_x, movements,
                   path, row_index, ticks, handed, max_depth>>
    /\ UNCHANGED aiVars
    /\ UNCHANGED <<codecVars, studentVars>>

\* One iteration of the simulation loop, the planner call having produced r
Tick(r) ==
    /\ pc = "running"
    /\ ticks' = ticks + 1
    /\ IF \E i \in 1..Len(buffer) : Len(buffer[i]) # width
       THEN \* raise ValueError("Inconsistent row width detected in stream.")
            /\ pc' = "done"
            /\ outcome' = "ValueError"
            /\ UNCHANGED <<buffer, it, x, movements, path, row_index, handed>>
       ELSE LET move == CoerceMove(RawMove(r))
                nx == ClampX(width, x, move)
                after == Edited(buffer, r.edit)
                buf == BufferAfterCall(buffer, after)
                cell == RowAt(CurrentRow(buf), nx)
            IN  /\ path' = PathAfter(path, r)
                /\ handed' = after
                /\ movements' = IF move # 0 THEN movements + 1 ELSE movements
                /\ x' = nx
                /\ IF cell = "!"
                   THEN \* current_row[x] raises IndexError out of run_game
                        /\ pc' = "done"
                        /\ outcome' = "IndexError"
                        /\ buffer' = buf
                        /\ UNCHANGED <<it, row_index>>
                   ELSE IF ~IsFree(cell)
                   THEN /\ pc' = "done"
                        /\ outcome' = IF IsGoal(cell) THEN "Finished" ELSE "Crashed"
                        /\ buffer' = buf
                        /\ UNCHANGED <<it, row_index>>
                   ELSE /\ row_index' = row_index + 1
                        /\ IF it < Len(stream)
                           THEN /\ buffer' = Append(Tail(buf), stream[it + 1])
                                /\ it' = NextIt(it)
                                /\ pc' = "running"
                                /\ outcome' = "none"
                           ELSE IF stream_error # ""
                           THEN \* next(it) raises the iterable's error out of run_game
                                /\ buffer' = Tail(buf)
                                /\ it' = it
                                /\ pc' = "done"
                                /\ outcome' = "StreamRaised"
                           ELSE \* next(it) raises StopIteration: return
                                /\ buffer' = Tail(buf)
                                /\ it' = it
                                /\ pc' = "done"
                                /\ outcome' = "Exhausted"
    /\ UNCHANGED <<stream, stream_error, lookahead, start_arg, start_x, width,
                   max_depth>>
    /\ UNCHANGED aiVars
    /\ UNCHANGED <<codecVars, studentVars>>

\* a tick with an arbitrary planner
TickAny == \E r \in PlannerResults : Tick(r)

CodecIdle ==
    /\ grid = <<>>
    /\ seed = 0
    /\ filename = ""
    /\ sibling = FALSE
    /\ lines = <<>>
    /\ tamper = "none"
    /\ codec_pc = "idle"
    /\ data = <<>>
    /\ decoded = <<>>
    /\ decode_error = ""
    /\ s_decoded = <<>>
    /\ s_decode_error = ""
    /\ files = <<>>
    /\ decodes = <<>>

Init ==
    /\ EngineInit
    /\ max_depth = 0
    /\ AIIdle
    /\ StudentIdle
    /\ CodecIdle

Next == Prime \/ TickAny

Spec == Init /\ [][Next]_vars

(***************************************************************************)
(* Claims about Engine.run_game under an arbitrary planner (Spec)          *)
(***************************************************************************)
\* the width W of the stream's rows
StreamW == Len(stream[1])

\* C1: after every tick the car column x satisfies 0 <= x < W, whatever the
\* planner returned or raised.
C1_ColumnInBounds == ticks > 0 => (0 <= x /\ x < StreamW)

\* a run with a raising call and an out-of-range value that ends a tick at the
\* right wall
C1_Witness ==
    /\ ticks >= 2
    /\ Len(path) < ticks
    /\ \E i \in 1..Len(path) : path[i] > 1
    /\ x = StreamW - 1

\* C2: the run never executes more than len(stream) ticks: a run that is
\* about to execute a tick has executed fewer than len(stream), and a run that
\* has not returned can always take its next step.
C2_TerminatesWithinLen ==
    /\ ticks <= Len(stream)
    /\ (pc = "running" => ticks < Len(stream))
    /\ (pc # "done" => ENABLED Next)

\* a run that returned after exactly len(stream) ticks, one of them with a
\* raising planner
C2_Witness ==
    /\ pc = "done"
    /\ ticks = Len(stream)
    /\ ticks >= 2
    /\ Len(path) < ticks

\* C3: on tick t the window's front row is stream row t, and the cell of that
\* row at the post-move column alone decides the tick: '#' ends the run
\* Crashed on that tick, 'F' ends it Finished on that tick, '.' lets the tick go
\* on to the advance step (the row is popped).
C3_FrontRowDecides ==
    /\ (pc = "running" => buffer[1] = stream[ticks + 1])
    /\ (ticks > 0 =>
          LET cell == RowAt(stream[ticks], x)
          IN  /\ (cell = "#" <=> outcome = "Crashed")
              /\ (cell = "F" <=> outcome = "Finished")
              /\ (cell = "." <=> (outcome \in {"none", "Exhausted"} /\ row_index = ticks)))

\* a crash on the second tick while the next row of the window is free at the
\* car's column
C3_Witness ==
    /\ ticks = 2
    /\ outcome = "Crashed"
    /\ Len(buffer) >= 2
    /\ RowAt(buffer[2], x) = "."

(***************************************************************************)
(* choose_move on its own: one call on a window and a column                *)
(***************************************************************************)
EngineIdle ==
    /\ stream = <<>>
    /\ stream_error = ""
    /\ lookahead = EngineH
    /\ start_arg = EngineW \div 2
    /\ start_x = EngineW \div 2
    /\ pc = "idle"
    /\ buffer = <<>>
    /\ it = 0
    /\ width = 0
    /\ x = 0
    /\ movements = 0
    /\ path = <<>>
    /\ row_index = 0
    /\ ticks = 0
    /\ outcome = "none"
    /\ handed = <<>>

InitAI ==
    /\ EngineIdle
    /\ max_depth \in 1..MaxDepth
    /\ \E inp \in AIInputs : visible_rows = inp[1] /\ car_x = inp[2]
    /\ ai_pc = "call"
    /\ ai_result = PlannerResult(FALSE, 0)
    /\ CodecIdle
    /\ StudentIdle

\* the call ai.choose_move(visible_rows, car_x)
Choose ==
    /\ ai_pc = "call"
    /\ ai_result' = ChooseMove(visible_rows, car_x, max_depth)
    /\ ai_pc' = "returned"
    /\ UNCHANGED <<visible_rows, car_x, max_depth>>
    /\ UNCHANGED engineVars
    /\ UNCHANGED <<codecVars, studentVars>>

NextAI == Choose

SpecAI == InitAI /\ [][NextAI]_vars

(***************************************************************************)
(* Claims about AI.choose_move (SpecAI).  The reference is the brute-force  *)
(* enumeration of all move sequences of length d over the first d rows.     *)
(***************************************************************************)
MoveSeqs(d) == [1..d -> {-1, 0, 1}]

RECURSIVE ColumnAfter(_, _, _)
\* the column after the first k moves of ms, starting from cx
ColumnAfter(cx, ms, k) == IF k = 0 THEN cx ELSE ColumnAfter(cx, ms, k - 1) + ms[k]

\* ms stays in [0, W) and avoids '#' in the row of each depth
SafeSeq(rows, cx, ms) ==
    \A k \in 1..Len(ms) :
        LET c == ColumnAfter(cx, ms, k)
        IN  c >= 0 /\ c < Len(rows[k]) /\ rows[k][c + 1] # "#"

\* 1 per Left/Right, 0 per Stay
LateralCost(ms) == Cardinality({k \in 1..Len(ms) : ms[k] # 0})

\* the surviving continuations to depth d that begin with the move first
Continuations(rows, cx, first, d) ==
    IF Len(rows) < d THEN {}
    ELSE {ms \in MoveSeqs(d) : ms[1] = first /\ SafeSeq(rows, cx, ms)}

Survives(rows, cx, first, d) == Continuations(rows, cx, first, d) # {}

MinOf(S) == CHOOSE m \in S : \A n \in S : m <= n

\* the minimal cumulative cost of a surviving first move
BestCost(rows, cx, first, d) ==
    MinOf({LateralCost(ms) : ms \in Continuations(rows, cx, first, d)})

SurvivingMoves(rows, cx, d) == {m \in {-1, 0, 1} : Survives(rows, cx, m, d)}

\* the minimum over all surviving first moves
OverallBest(rows, cx, d) ==
    MinOf({BestCost(rows, cx, m, d) : m \in SurvivingMoves(rows, cx, d)})

\* the first moves that achieve the overall minimum
BestMoves(rows, cx, d) ==
    {m \in SurvivingMoves(rows, cx, d) :
        BestCost(rows, cx, m, d) = OverallBest(rows, cx, d)}

Returned == ai_pc = "returned" /\ ~ai_result.raised

\* C4: when at least one first move has a collision-free, in-bounds
\* continuation to depth D, choose_move never returns a first move that has
\* none.
C4_PlannerSound ==
    (Returned /\ SurvivingMoves(visible_rows, car_x, max_depth) # {})
        => ai_result.value \in SurvivingMoves(visible_rows, car_x, max_depth)

\* C5: for a window of at least D rows in which some first move survives, the
\* best cost of the returned move equals the minimum over the three first
\* moves.
C5_MinimalCost ==
    (ai_pc = "returned" /\ Len(visible_rows) >= max_depth
        /\ SurvivingMoves(visible_rows, car_x, max_depth) # {})
        => /\ ~ai_result.raised
           /\ ai_result.value \in BestMoves(visible_rows, car_x, max_depth)

\* C6: whenever Stay is a surviving first move of minimal cost, choose_move
\* returns Stay.
C6_PrefersStay ==
    (ai_pc = "returned" /\ 0 \in BestMoves(visible_rows, car_x, max_depth))
        => (~ai_result.raised /\ ai_result.value = 0)

\* twice the distance of column c to the centre (W - 1) / 2 of a row of width w
Dist2(w, c) == Abs(2 * c - (w - 1))

\* C7: when Left and Right both achieve the minimal cost and Stay does not,
\* choose_move returns the lateral move whose column is closer to (W - 1) / 2,
\* W the width of the window's rows, and Left when both are equally close.
C7_CloserToCentre ==
    (ai_pc = "returned" /\ BestMoves(visible_rows, car_x, max_depth) = {-1, 1})
        => LET w == Len(visible_rows[1])
           IN  /\ ~ai_result.raised
               /\ ai_result.value =
                    IF Dist2(w, car_x + 1) < Dist2(w, car_x - 1) THEN 1 ELSE -1

\* the first moves with a collision-free, in-bounds continuation over the rows
\* of the window that the search reaches: D rows, or all of them when the
\* window has fewer
Survivors == SurvivingMoves(visible_rows, car_x, Min(max_depth, Len(visible_rows)))

\* C19: choose_move returns Stay on an empty window, and returns Stay whenever
\* none of the three first moves survives the discard rule.
C19_StayWhenNoneSurvives ==
    (ai_pc = "returned" /\ (visible_rows = <<>> \/ Survivors = {}))
        => (~ai_result.raised /\ ai_result.value = 0)

\* C20: on a non-empty window with fewer rows than max_depth, choose_move
\* completes without raising and returns a move in {-1, 0, 1}.
C20_ShortWindowNoRaise ==
    (ai_pc = "returned" /\ visible_rows # <<>> /\ Len(visible_rows) < max_depth)
        => (~ai_result.raised /\ ai_result.value \in {-1, 0, 1})

\* the nodes below the first move that lie on an in-bounds, collision-free
\* path of the window: <<depth, column>> with 1 <= depth < D
SearchNodes ==
    {<<Len(ms), ColumnAfter(car_x, ms, Len(ms))>> :
        ms \in UNION {{s \in MoveSeqs(d) : SafeSeq(visible_rows, car_x, s)} :
                          d \in 1..(Min(max_depth, Len(visible_rows)) - 1)}}

\* C21: at every depth choose_move prunes exactly the candidate columns outside
\* [0, W), W the width of the rows of the window: on a window of at least D
\* rows it never reads a cell at a column >= W (the read raises IndexError),
\* and at every node the bounds test of the search rejects a candidate column
\* exactly when it lies outside [0, W).
C21_PrunesExactlyOutside ==
    (ai_pc = "returned" /\ visible_rows # <<>>)
        => /\ (Len(visible_rows) >= max_depth => ~ai_result.raised)
           /\ \A n \in SearchNodes : \A m \in {-1, 0, 1} :
                  LET nx == n[2] + m
                  IN  (nx < 0 \/ nx >= AIWidth)
                          <=> (nx < 0 \/ nx >= Len(visible_rows[1]))

\* the first move m keeps the car inside the nearest row and off its obstacles
SafeInNearestRow(m) ==
    LET c == car_x + m
    IN  c >= 0 /\ c < Len(visible_rows[1]) /\ visible_rows[1][c + 1] # "#"

\* C26: when some first move is safe in the nearest row, the move choose_move
\* returns is safe in the nearest row, whether or not any first move survives
\* to depth D; a returned move lands on '#' in the nearest row only when every
\* in-bounds first move does.
C26_AvoidsImmediateCrash ==
    (Returned /\ visible_rows # <<>> /\ \E m \in {-1, 0, 1} : SafeInNearestRow(m))
        => SafeInNearestRow(ai_result.value)

(***************************************************************************)
(* The engine driven by AI.choose_move, as main.py wires them               *)
(***************************************************************************)
\* the end-to-end example: rows "....#", "..#..", ".....", "FFFFF"
ExampleStream == << WallRow(5, 4), WallRow(5, 2), FreeRow(5), FinishRow(5) >>

RunStreams == SeqsUpTo(RowSet(EngineW), MaxRows) \cup {ExampleStream}

RunStartArgs == StartArgs \cup {2}

RunLookaheads == (1..MaxLookahead) \cup {EngineH}

InitRun ==
    /\ stream \in RunStreams
    /\ stream_error = ""
    /\ lookahead \in RunLookaheads
    /\ start_arg \in RunStartArgs
    /\ start_x = InitStartX(start_arg)
    /\ pc = "prime"
    /\ buffer = <<>>
    /\ it = 0
    /\ width = 0
    /\ x = 0
    /\ movements = 0
    /\ path = <<>>
    /\ row_index = 0
    /\ ticks = 0
    /\ outcome = "none"
    /\ handed = <<>>
    /\ max_depth \in 1..MaxDepth
    /\ AIIdle
    /\ StudentIdle
    /\ CodecIdle

\* a tick whose planner is ai.choose_move
TickAI == Tick(ChooseMove(buffer, x, max_depth))

NextRun == Prime \/ TickAI

SpecRun == InitRun /\ [][NextRun]_vars

\* C30: with the solution planner on rows of width Engine.W and max_depth
\* D <= lookahead H, on a tick where some first move has a collision-free
\* continuation to depth D in the window the planner sees, the engine applies
\* such a move and the car survives the tick; the run ends Crashed on a tick
\* only if no first move had one.
C30_SurvivorMeansSurvival ==
    [][(pc = "running" /\ Len(buffer[1]) = EngineW /\ max_depth <= lookahead
          /\ SurvivingMoves(buffer, x, max_depth) # {})
        => /\ (x' - x) \in SurvivingMoves(buffer, x, max_depth)
           /\ RowAt(buffer[1], x') # "#"
           /\ outcome' \in {"none", "Finished", "Exhausted"}]_vars

\* a run on rows of width 10 with 2 <= D <= H whose first row is blocked at
\* the start column: the planner moved aside and the car is past that row
C30_Witness ==
    /\ stream # <<>>
    /\ path # <<>>
    /\ StreamW = EngineW
    /\ max_depth >= 2
    /\ max_depth <= lookahead
    /\ ticks >= 1
    /\ outcome = "none"
    /\ RowAt(stream[1], start_x) = "#"
    /\ path[1] # 0

(***************************************************************************)
(* Track codec: trackgen.encrypt_trk_bytes and                             *)
(* Loader._stream_from_encrypted.  Bytes are integers 0..255; a 32-bit      *)
(* value is the sequence of its 4 little-endian bytes.                      *)
(***************************************************************************)
\* trackgen._A, trackgen._B
GenA == 1307
GenB == 66485

\* Loader._A, Loader._B
LoaderA == 1307
LoaderB == 66485

\* n.to_bytes(4, "little") for 0 <= n < 2^31
Word(n) == << n % 256, (n \div 256) % 256, (n \div 65536) % 256, (n \div 16777216) % 256 >>

RECURSIVE BitXor(_, _)
\* a ^ b on non-negative integers
BitXor(a, b) ==
    IF a = 0 THEN b
    ELSE IF b = 0 THEN a
    ELSE ((a + b) % 2) + 2 * BitXor(a \div 2, b \div 2)

\* ^ on 32-bit values
WordXor(u, v) == [j \in 1..4 |-> BitXor(u[j], v[j])]

\* zlib.crc32(filename.encode()) & 0xFFFFFFFF for the file names of the model
Crc32(name) ==
    CASE name = "TRK_41017.trk.enc" -> << 0, 94, 57, 10 >>
      [] name = "TRK_58321.trk.enc" -> << 156, 25, 201, 75 >>

\* trackgen._seed_key
GenSeedKey(sd, name) == WordXor(WordXor(WordXor(Word(sd), Word(GenA)), Crc32(name)), Word(GenB))

\* Loader._seed_key
LoaderSeedKey(sd, name) ==
    WordXor(WordXor(WordXor(Word(sd), Word(LoaderA)), Crc32(name)), Word(LoaderB))

\* Byte n (0-based) of the keystream of random.Random(key): byte n % 4 of the
\* word number n \div 4.  The generator is the library's; all the codec relies
\* on is that the words are a fixed function of the key.
KeystreamByte(key, n) ==
    LET i == n \div 4
        j == n % 4
    IN  (7 * key[j + 1] + 3 * key[((j + 1) % 4) + 1] + 13 * i + 5 * j + 1) % 256

\* ord / chr on the track alphabet
Ord(ch) == CASE ch = "." -> 46 [] ch = "#" -> 35 [] ch = "F" -> 70
Chr(b) == CASE b = 46 -> "." [] b = 35 -> "#" [] b = 70 -> "F" [] OTHER -> "?"

RECURSIVE Concat(_)
\* ''.join(rows)
Concat(rows) == IF rows = <<>> THEN <<>> ELSE Head(rows) \o Concat(Tail(rows))

\* ''.join(rows).encode('ascii')
Payload(rows) == LET t == Concat(rows) IN [k \in 1..Len(t) |-> Ord(t[k])]

RECURSIVE RunLength(_, _)
\* the length of the run of b at the head of bytes
RunLength(bytes, b) ==
    IF bytes = <<>> \/ Head(bytes) # b THEN 0 ELSE 1 + RunLength(Tail(bytes), b)

RECURSIVE RunLengthCode(_)
\* the run-length code (count, byte)* with counts 1..255
RunLengthCode(bytes) ==
    IF bytes = <<>> THEN <<>>
    ELSE LET b == Head(bytes)
             n == Min(255, RunLength(bytes, b))
         IN  << n, b >> \o RunLengthCode(SubSeq(bytes, n + 1, Len(bytes)))

\* zlib.compress(payload, 9): the library's lossless compression, modelled by
\* the stream header byte 0x78 followed by a run-length code; as with zlib, no
\* compressed stream is empty
Compress(bytes) == << 120 >> \o RunLengthCode(bytes)

\* zlib.decompress raises zlib.error on bytes that are no compressed stream
WellFormed(comp) ==
    /\ Len(comp) >= 1
    /\ comp[1] = 120
    /\ (Len(comp) - 1) % 2 = 0
    /\ \A k \in 1..((Len(comp) - 1) \div 2) : comp[2 * k] >= 1

RECURSIVE RunLengthExpand(_)
\* the bytes a run-length code stands for
RunLengthExpand(code) ==
    IF code = <<>> THEN <<>>
    ELSE [k \in 1..code[1] |-> code[2]] \o RunLengthExpand(SubSeq(code, 3, Len(code)))

\* zlib.decompress(comp) on a well-formed stream
Decompress(comp) == RunLengthExpand(Tail(comp))

\* trackgen.encrypt_trk_bytes(rows, seed, out_filename)
EncryptTrkBytes(rows, sd, name) ==
    LET payload == Payload(rows)
        comp == Compress(payload)
        key == GenSeedKey(sd, name)
        size_le == Word(Len(payload))
    IN  [k \in 1..(4 + Len(comp)) |->
            IF k <= 4 THEN BitXor(size_le[k], KeystreamByte(key, k - 1))
            ELSE BitXor(comp[k - 4], KeystreamByte(key, k - 1))]

\* the candidate widths of Loader._infer_default_width, in its order
CandidateWidths == << 10, 13, 16 >>

\* Loader._infer_default_width: the first candidate that divides, 0 for None
InferDefaultWidth(total_bytes) ==
    LET fits == {k \in 1..Len(CandidateWidths) : total_bytes % CandidateWidths[k] = 0}
    IN  IF fits = {} THEN 0
        ELSE CandidateWidths[CHOOSE k \in fits : \A m \in fits : k <= m]

\* Loader._infer_width_from_neighbor: the length of the first non-empty line of
\* the plaintext sibling, 0 for None.  The sibling holds the rows of plain.
InferWidthFromNeighbor(exists, plain) ==
    LET nonempty == {k \in 1..Len(plain) : Len(plain[k]) > 0}
    IN  IF ~exists \/ nonempty = {} THEN 0
        ELSE Len(plain[CHOOSE k \in nonempty : \A m \in nonempty : k <= m])

\* width = self._infer_width_from_neighbor(p) or self._infer_default_width(len(raw))
InferWidth(exists, plain, total_bytes) ==
    IF InferWidthFromNeighbor(exists, plain) # 0
    THEN InferWidthFromNeighbor(exists, plain)
    ELSE InferDefaultWidth(total_bytes)

\* the rows yielded: raw[i : i + width].decode("ascii") for i in range(0, len(raw), width)
SplitRows(raw, w) ==
    [r \in 1..(Len(raw) \div w) |-> [c \in 1..w |-> Chr(raw[(r - 1) * w + c])]]

\* the size check never failing
SizeNeverMismatch(raw, sz_bytes) == FALSE

\* len(raw) != int.from_bytes(sz_bytes, "little"), compared as bytes
SizeMismatch(raw, sz_bytes) == Word(Len(raw)) # sz_bytes

\* a keystream generator shared by the streams of a Loader: a new stream goes
\* on where the most advanced of the others stands
KeystreamShared(key, others) ==
    IF others = {} THEN [key |-> key, pos |-> 0]
    ELSE CHOOSE g \in others : \A h \in others : h.pos <= g.pos

\* ks = self._keystream(seed_key): a new generator that stands at the first
\* byte of the keystream of its own random.Random(seed_key); the generators of
\* the other streams of the Loader (others) play no part
Keystream(key, others) == [key |-> key, pos |-> 0]

\* the byte the n-th next(ks) from now returns (n counted from 0)
KsByte(ks, n) == KeystreamByte(ks.key, ks.pos + n)

\* Loader._stream_from_encrypted run to its end with the keystream generator
\* ks: the error raised ("" when none) and the rows yielded
StreamFromEncryptedKs(bytes, ks, exists, plain) ==
    IF Len(bytes) < 4 THEN [error |-> "ValueError: too short", rows |-> <<>>]
    ELSE
      LET sz_bytes == [k \in 1..4 |-> BitXor(bytes[k], KsByte(ks, k - 1))]
          comp == [k \in 1..(Len(bytes) - 4) |-> BitXor(bytes[k + 4], KsByte(ks, k + 3))]
      IN  IF ~WellFormed(comp) THEN [error |-> "zlib.error", rows |-> <<>>]
          ELSE
            LET raw == Decompress(comp)
                w == InferWidth(exists, plain, Len(raw))
            IN  IF SizeMismatch(raw, sz_bytes)
                THEN [error |-> "ValueError: size mismatch", rows |-> <<>>]
                ELSE IF w = 0 \/ Len(raw) % w # 0
                THEN [error |-> "ValueError: width", rows |-> <<>>]
                ELSE [error |-> "", rows |-> SplitRows(raw, w)]

\* Loader._stream_from_encrypted run to its end, no other stream being open
StreamFromEncrypted(bytes, sd, name, exists, plain) ==
    StreamFromEncryptedKs(bytes, Keystream(LoaderSeedKey(sd, name), {}), exists, plain)

\* the rows the student Loader yields: raw[i : i + 13] for i in range(0, len(raw), 13)
StudentSplitRows(raw) ==
    [r \in 1..((Len(raw) + 12) \div 13) |->
        [c \in 1..Min(13, Len(raw) - (r - 1) * 13) |-> Chr(raw[(r - 1) * 13 + c])]]

\* student Loader.stream_decrypt_lines run to its end: the error raised ("" when
\* none) and the rows yielded.  The salts _A and _B of the student Loader have
\* the values of the solution Loader's, so the key is LoaderSeedKey.  f.read(4)
\* returns fewer than 4 bytes on a short file, the rest is then empty and
\* zlib.decompress raises.  The assert statement raises AssertionError.
StudentStreamDecryptLines(bytes, sd, name) ==
    LET key == LoaderSeedKey(sd, name)
        hl == Min(4, Len(bytes))
        sz_enc == [k \in 1..hl |-> BitXor(bytes[k], KeystreamByte(key, k - 1))]
        dec == [k \in 1..(Len(bytes) - hl) |->
                   BitXor(bytes[k + hl], KeystreamByte(key, k + hl - 1))]
    IN  IF ~WellFormed(dec) THEN [error |-> "zlib.error", rows |-> <<>>]
        ELSE LET raw == Decompress(dec)
             IN  IF Word(Len(raw)) # sz_enc
                 THEN [error |-> "AssertionError", rows |-> <<>>]
                 ELSE [error |-> "", rows |-> StudentSplitRows(raw)]

RECURSIVE RStrip(_)
\* line.rstrip("\n")
RStrip(line) ==
    IF line # <<>> /\ line[Len(line)] = "\n"
    THEN RStrip(SubSeq(line, 1, Len(line) - 1))
    ELSE line

\* not any(ch not in ('.', '#', 'F') for ch in row)
ValidRow(row) == \A k \in 1..Len(row) : row[k] \in {".", "#", "F"}

\* Loader._stream_from_plaintext run to its end on the lines of the file: the
\* rows yielded, one by one, before the error (if any) is raised
StreamFromPlaintext(ls) ==
    LET rows == SelectSeq([k \in 1..Len(ls) |-> RStrip(ls[k])], LAMBDA r : r # <<>>)
        bad == {k \in 1..Len(rows) : Len(rows[k]) # Len(rows[1]) \/ ~ValidRow(rows[k])}
    IN  IF bad = {} THEN [error |-> "", rows |-> rows]
        ELSE LET b == CHOOSE k \in bad : \A m \in bad : k <= m
             IN  [error |-> IF Len(rows[b]) # Len(rows[1])
                            THEN "ValueError: inconsistent row width"
                            ELSE "ValueError: invalid characters",
                  rows |-> SubSeq(rows, 1, b - 1)]

\* Path(path).suffix for the file names of the model
Suffix(name) ==
    IF name \in {"TRK_41017.trk.enc", "TRK_58321.trk.enc"} THEN ".enc" ELSE ".trk"

\* Loader.stream_decrypt_lines: the format is chosen by the extension
StreamDecryptLines(name, bytes, sd, exists, plain, ls) ==
    IF Suffix(name) = ".enc"
    THEN StreamFromEncrypted(bytes, sd, name, exists, plain)
    ELSE StreamFromPlaintext(ls)

\* the .trk.enc file after damage: cut below the 4 header bytes, one bit of the
\* size header flipped, or the last byte of the compressed body lost
Tampered(bytes, kind) ==
    CASE kind = "truncate" -> SubSeq(bytes, 1, Min(3, Len(bytes)))
      [] kind = "header" -> [bytes EXCEPT ![1] = BitXor(@, 1)]
      [] kind = "body" -> SubSeq(bytes, 1, Len(bytes) - 1)
      [] OTHER -> bytes

TamperKinds == {"truncate", "header", "body"}

\* widths of the grids given to the codec
GridWidths == {3, 5, EngineW, 13, 16}

\* the rows a grid is made of
GridRows(w) == {FreeRow(w), WallRow(w, 0), FinishRow(w)}

Grids == UNION {SeqsUpTo(GridRows(w), MaxGridRows) : w \in GridWidths}

\* the (seed, file name) pairs
Seeds == {41017, 58321}
Filenames == {"TRK_41017.trk.enc", "TRK_58321.trk.enc"}

InitCodec ==
    /\ EngineIdle
    /\ max_depth = 0
    /\ AIIdle
    /\ StudentIdle
    /\ grid \in Grids
    /\ seed \in Seeds
    /\ filename \in Filenames
    /\ sibling \in BOOLEAN
    /\ lines = <<>>
    /\ tamper = "none"
    /\ codec_pc = "encrypt"
    /\ data = <<>>
    /\ decoded = <<>>
    /\ decode_error = ""
    /\ s_decoded = <<>>
    /\ s_decode_error = ""
    /\ files = <<>>
    /\ decodes = <<>>

\* trackgen.write_encrypted_trk: the file receives encrypt_trk_bytes(rows, seed, name)
Encrypt ==
    /\ codec_pc = "encrypt"
    /\ data' = EncryptTrkBytes(grid, seed, filename)
    /\ codec_pc' = "decode"
    /\ UNCHANGED <<grid, seed, filename, sibling, lines, tamper, decoded, decode_error,
                   s_decoded, s_decode_error, files, decodes>>
    /\ UNCHANGED <<engineVars, aiVars, studentVars, max_depth>>

\* list(Loader(seed)._stream_from_encrypted(path))
Decode ==
    /\ codec_pc = "decode"
    /\ LET res == StreamFromEncrypted(data, seed, filename, sibling, grid)
       IN  /\ decoded' = res.rows
           /\ decode_error' = res.error
    /\ codec_pc' = "done"
    /\ UNCHANGED <<grid, seed, filename, sibling, lines, tamper, data, s_decoded,
                   s_decode_error, files, decodes>>
    /\ UNCHANGED <<engineVars, aiVars, studentVars, max_depth>>

NextCodec == Encrypt \/ Decode

SpecCodec == InitCodec /\ [][NextCodec]_vars

\* C8: decoding the bytes encrypt_trk_bytes produced, with the same seed and
\* file name, yields exactly the original rows, for every rectangular grid.
C8_RoundTrip == codec_pc = "done" => (decode_error = "" /\ decoded = grid)

\* the candidate widths that divide n evenly
DividingCandidates(n) == {k \in 1..Len(CandidateWidths) : n % CandidateWidths[k] = 0}

\* C9: without a plaintext sibling, a payload whose length is divisible by
\* none, or by more than one, of the candidate widths fails to decode and yields
\* no rows.
C9_AmbiguousWidthFails ==
    (codec_pc = "done" /\ ~sibling
        /\ Cardinality(DividingCandidates(Len(Payload(grid)))) # 1)
        => (decode_error # "" /\ decoded = <<>>)

(***************************************************************************)
(* Claims about the engine driven by AI.choose_move (SpecRun)              *)
(***************************************************************************)
\* C10: with horizon 3, the example stream of width 5 and start column 2, the
\* run ends Finished and the car never enters a '#'.
C10_ExampleFinishes ==
    (stream = ExampleStream /\ start_arg = 2 /\ max_depth = 3)
        => /\ outcome # "Crashed"
           /\ (pc = "done" => outcome = "Finished")

(***************************************************************************)
(* Further claims about Engine.run_game under an arbitrary planner (Spec)   *)
(***************************************************************************)
\* C11: a run over a non-empty stream of non-empty rows reaches the Exhausted
\* outcome only when the window is empty and the car has entered every row of
\* the stream (the rows left in the window are drained first).
C11_DrainsWindow ==
    (pc = "done" /\ outcome = "Exhausted" /\ stream # <<>> /\ StreamW > 0)
        => (buffer = <<>> /\ ticks = Len(stream))

\* a tick on which the planner was called and raised (nothing was appended to
\* path) or returned a value outside {-1, 0, 1}
FaultedTick ==
    /\ pc = "running"
    /\ ticks' = ticks + 1
    /\ outcome' # "ValueError"
    /\ (path' = path \/ path'[Len(path')] \notin {-1, 0, 1})

\* C13: a tick on which the planner raises or returns a value outside
\* {-1, 0, 1} proceeds with Stay: the column is unchanged, no movement is
\* counted, and the run goes on or ends in one of its own outcomes, no
\* exception leaving run_game.
C13_FaultIsStay ==
    [][FaultedTick =>
          /\ x' = x
          /\ movements' = movements
          /\ outcome' \in {"none", "Crashed", "Finished", "Exhausted"}]_vars

\* C16: the movements counter equals the number of executed ticks, the
\* terminal tick included, whose coerced move was -1 or +1.  path holds the
\* value the planner returned on each tick it did not raise on; the coerced
\* move is lateral exactly when that value is -1 or +1.
C16_CountsLateralMoves ==
    movements = Cardinality({i \in 1..Len(path) : path[i] \in {-1, 1}})

\* a run that crashed on its second tick at the left wall: both moves were
\* Left, the second left the column unchanged, and both were counted
C16_Witness ==
    /\ pc = "done"
    /\ outcome = "Crashed"
    /\ ticks = 2
    /\ path = <<-1, -1>>
    /\ x = 0
    /\ movements = 2

\* C18: the path has exactly one entry per executed tick and every entry is
\* -1, 0 or +1, a coerced or faulted tick being recorded as 0.
C18_PathOfAppliedMoves ==
    outcome # "ValueError" =>
        /\ Len(path) = ticks
        /\ \A i \in 1..Len(path) : path[i] \in {-1, 0, 1}

\* C23: priming loads the first min(H, len(stream)) rows, and an empty stream
\* ends the run at once with counter 0, empty path and no planner call; at
\* every planner call, after t completed ticks, the window is the contiguous
\* slice of the stream that starts at row t, in stream order, and holds at
\* most H rows.
C23_WindowIsStreamSlice ==
    /\ ((pc = "done" /\ stream = <<>>)
          => (ticks = 0 /\ movements = 0 /\ path = <<>> /\ outcome = "Exhausted"))
    /\ ((pc = "running" /\ ticks = 0) => Len(buffer) = Min(lookahead, Len(stream)))
    /\ (pc = "running"
          => /\ buffer = SubSeq(stream, ticks + 1, Min(ticks + lookahead, Len(stream)))
             /\ Len(buffer) >= 1
             /\ Len(buffer) <= lookahead)

\* the planner call after one tick of a run with lookahead 2 on three rows:
\* the window holds the second and the third row, which differ
C23_Witness ==
    /\ pc = "running"
    /\ ticks = 1
    /\ lookahead = 2
    /\ Len(stream) = 3
    /\ buffer = <<stream[2], stream[3]>>
    /\ stream[2] # stream[3]

\* C27: on a track that ends with an all-'F' row, a run in which the car
\* never enters an obstacle ends Finished, for every lookahead H >= 1 and
\* however many finish rows the track ends with.
C27_FinishRowIsReached ==
    (pc = "done" /\ stream # <<>> /\ StreamW > 0
        /\ stream[Len(stream)] = FinishRow(StreamW) /\ outcome # "Crashed")
        => outcome = "Finished"

\* C28: on every tick, the first included, the column passed to the planner
\* lies in [0, W), W the width of the rows of the stream, for every start_x
\* given to the constructor and every stream width.
C28_PlannerColumnInBounds == pc = "running" => (0 <= x /\ x < StreamW)

\* C29: the engine starts the run at the requested column c for every c in
\* [0, Engine.W), the leftmost column 0 included, and at the centre column
\* Engine.W // 2 for every other value.
C29_StartColumnHonoured ==
    LET requested == IF 0 <= start_arg /\ start_arg < EngineW
                     THEN start_arg ELSE EngineW \div 2
    IN  (pc = "running" /\ ticks = 0) => x = requested

(***************************************************************************)
(* Engine.run_game under a planner that edits the list it is given          *)
(* (SpecSnapshot)                                                          *)
(***************************************************************************)
\* a tick whose planner may edit the list it was given
TickEditing == \E r \in EditingPlannerResults : Tick(r)

NextSnapshot == Prime \/ TickEditing

SpecSnapshot == Init /\ [][NextSnapshot]_vars

\* the rows of the stream from row t (counted from 0) on, at most H of them
StreamSlice(t) == SubSeq(stream, t + 1, Min(t + lookahead, Len(stream)))

\* C24: whatever the planner does to the list it is handed, the engine's own
\* window holds the rows as pulled from the stream: the collision check of the
\* tick is made on the stream row of that tick, and the window of every later
\* tick is the slice of the stream that follows.
C24_PlannerGetsSnapshot ==
    ticks > 0 =>
        LET cell == RowAt(stream[ticks], x)
        IN  /\ outcome = (CASE cell = "#" -> "Crashed"
                            [] cell = "F" -> "Finished"
                            [] OTHER -> IF pc = "done" THEN "Exhausted" ELSE "none")
            /\ (outcome \in {"Crashed", "Finished"} => buffer = StreamSlice(ticks - 1))
            /\ (outcome \in {"none", "Exhausted"} => buffer = StreamSlice(ticks))

\* two ticks survived by a car whose planner put a row of obstacles in front
\* of the list it was given on the second tick
C24_Witness ==
    /\ pc = "running"
    /\ ticks = 2
    /\ Len(handed) = Len(StreamSlice(1)) + 1
    /\ \A k \in 1..Len(handed[1]) : handed[1][k] = "#"
    /\ Tail(handed) = StreamSlice(1)

(***************************************************************************)
(* Decoding a damaged .trk.enc file, by the solution Loader and by the      *)
(* student Loader (SpecTamper)                                              *)
(***************************************************************************)
InitTamper ==
    /\ EngineIdle
    /\ max_depth = 0
    /\ AIIdle
    /\ StudentIdle
    /\ grid \in Grids
    /\ seed = 41017
    /\ filename = "TRK_41017.trk.enc"
    /\ sibling \in BOOLEAN
    /\ lines = <<>>
    /\ tamper = "none"
    /\ codec_pc = "encrypt"
    /\ data = <<>>
    /\ decoded = <<>>
    /\ decode_error = ""
    /\ s_decoded = <<>>
    /\ s_decode_error = ""
    /\ files = <<>>
    /\ decodes = <<>>

\* the file is damaged between its writing and its reading: p.read_bytes()
\* returns whatever the file holds
Tamper ==
    /\ codec_pc = "decode"
    /\ tamper = "none"
    /\ Suffix(filename) = ".enc"
    /\ \E kind \in TamperKinds :
          /\ data' = Tampered(data, kind)
          /\ tamper' = kind
    /\ UNCHANGED <<grid, seed, filename, sibling, lines, codec_pc, decoded, decode_error,
                   s_decoded, s_decode_error, files, decodes>>
    /\ UNCHANGED <<engineVars, aiVars, studentVars, max_depth>>

\* list(Loader(seed).stream_decrypt_lines(path)) with the student Loader
DecodeStudent ==
    /\ codec_pc = "done"
    /\ LET res == StudentStreamDecryptLines(data, seed, filename)
       IN  /\ s_decoded' = res.rows
           /\ s_decode_error' = res.error
    /\ codec_pc' = "student_done"
    /\ UNCHANGED <<grid, seed, filename, sibling, lines, tamper, data, decoded,
                   decode_error, files, decodes>>
    /\ UNCHANGED <<engineVars, aiVars, studentVars, max_depth>>

NextTamper == Encrypt \/ Tamper \/ Decode \/ DecodeStudent

SpecTamper == InitTamper /\ [][NextTamper]_vars

\* sz_bytes: the 4 header bytes of the file, decrypted
HeaderBytes(bytes, sd, name) ==
    [k \in 1..4 |-> BitXor(bytes[k], KeystreamByte(LoaderSeedKey(sd, name), k - 1))]

\* comp: the body of the file, decrypted
BodyBytes(bytes, sd, name) ==
    [k \in 1..(Len(bytes) - 4) |->
        BitXor(bytes[k + 4], KeystreamByte(LoaderSeedKey(sd, name), k + 3))]

\* C14: when the body of the file inflates to a payload whose length differs
\* from the length the decrypted header declares, decoding ends with an error
\* and has yielded no row, in the solution Loader and in the student Loader.
C14_SizeMismatchFails ==
    LET mismatch ==
            /\ Len(data) >= 4
            /\ WellFormed(BodyBytes(data, seed, filename))
            /\ Word(Len(Decompress(BodyBytes(data, seed, filename))))
                   # HeaderBytes(data, seed, filename)
    IN  /\ (codec_pc \in {"done", "student_done"} /\ mismatch)
               => (decode_error # "" /\ decoded = <<>>)
        /\ (codec_pc = "student_done" /\ mismatch)
               => (s_decode_error # "" /\ s_decoded = <<>>)

\* a file of three rows of width 10, with a sibling, whose size header was
\* damaged: both Loaders ended on their size check
C14_Witness ==
    /\ codec_pc = "student_done"
    /\ tamper = "header"
    /\ Len(grid) = 3
    /\ Len(grid[1]) = EngineW
    /\ sibling
    /\ decode_error = "ValueError: size mismatch"
    /\ s_decode_error = "AssertionError"
    /\ decoded = <<>>
    /\ s_decoded = <<>>

(***************************************************************************)
(* main: the Loader's stream fed to Engine.run_game (SpecLoad).  The stream *)
(* is a generator: nothing of it runs before run_game's first next(it).  It  *)
(* is deterministic, so the rows it will yield and the error it will raise   *)
(* after them are fixed by the file when the stream is opened; stream and    *)
(* stream_error hold them and run_game's pulls consume them one by one.      *)
(***************************************************************************)
\* the lines of the plaintext files: rows of width 3 with their newline, an
\* empty line, a line of another width and a line with an invalid symbol
PlainLines ==
    {FreeRow(3) \o <<"\n">>, WallRow(3, 1) \o <<"\n">>, FinishRow(3) \o <<"\n">>,
     <<"\n">>, <<".", ".", "\n">>, <<".", "x", ".", "\n">>}

PlainFiles == SeqsUpTo(PlainLines, MaxRows)

\* the grids of the encrypted files
LoadGrids == UNION {SeqsUpTo(EngineRows(w), MaxRows) : w \in {3, EngineW}}

InitLoad ==
    /\ stream = <<>>
    /\ stream_error = ""
    /\ lookahead \in 1..MaxLookahead
    /\ start_arg = 2
    /\ start_x = InitStartX(start_arg)
    /\ pc = "open"
    /\ buffer = <<>>
    /\ it = 0
    /\ width = 0
    /\ x = 0
    /\ movements = 0
    /\ path = <<>>
    /\ row_index = 0
    /\ ticks = 0
    /\ outcome = "none"
    /\ handed = <<>>
    /\ max_depth = 0
    /\ AIIdle
    /\ StudentIdle
    /\ seed = 41017
    /\ \/ /\ filename = "TRK_41017.trk.enc"
          /\ grid \in LoadGrids
          /\ sibling \in BOOLEAN
          /\ lines = <<>>
          /\ codec_pc = "encrypt"
       \/ /\ filename = "TRK_41017.trk"
          /\ grid = <<>>
          /\ sibling = FALSE
          /\ lines \in PlainFiles
          /\ codec_pc = "decode"
    /\ tamper = "none"
    /\ data = <<>>
    /\ decoded = <<>>
    /\ decode_error = ""
    /\ s_decoded = <<>>
    /\ s_decode_error = ""
    /\ files = <<>>
    /\ decodes = <<>>

\* stream = loader.stream_decrypt_lines(path), handed to engine.run_game
Open ==
    /\ pc = "open"
    /\ codec_pc = "decode"
    /\ LET res == StreamDecryptLines(filename, data, seed, sibling, grid, lines)
       IN  /\ stream' = res.rows
           /\ stream_error' = res.error
    /\ pc' = "prime"
    /\ codec_pc' = "streaming"
    /\ UNCHANGED <<lookahead, start_arg, start_x, buffer, it, width, x, movements, path,
                   row_index, ticks, outcome, handed, max_depth>>
    /\ UNCHANGED <<grid, seed, filename, sibling, lines, tamper, data, decoded,
                   decode_error, s_decoded, s_decode_error, files, decodes>>
    /\ UNCHANGED <<aiVars, studentVars>>

NextLoad == Encrypt \/ Tamper \/ Open \/ Prime \/ TickAny

SpecLoad == InitLoad /\ [][NextLoad]_vars

\* C12: when the Loader's stream is fed to run_game, a fatal decode error
\* (file shorter than the header, size mismatch, failed decompression, width
\* that cannot be inferred, plaintext row of another width, invalid symbol) is
\* raised before any planner call: no tick is executed on rows of an asset that
\* fails to decode.
C12_DecodeErrorBeforeTicks == stream_error # "" => (ticks = 0 /\ path = <<>>)

(***************************************************************************)
(* Several decode streams on one Loader, their row pulls interleaved        *)
(* (SpecStreams).  Each call of stream_decrypt_lines makes a generator;      *)
(* its body runs, from the start to the first yield, in the first next().    *)
(***************************************************************************)
\* the grids of the files: rows of width 10, the width the Loader infers; the
\* second file holds the rows of the first and one row more
StreamGrids == SeqsUpTo({FreeRow(EngineW), WallRow(EngineW, 0)}, MaxStreamRows)

\* a stream that was opened and not yet pulled
NewDecode(f) ==
    [file |-> f, pc |-> "new", ks |-> [key |-> <<0, 0, 0, 0>>, pos |-> 0],
     pending |-> <<>>, out |-> <<>>, err |-> "", stops |-> 0]

InitStreams ==
    /\ EngineIdle
    /\ max_depth = 0
    /\ AIIdle
    /\ StudentIdle
    /\ grid = <<>>
    /\ seed = 41017
    /\ filename = ""
    /\ sibling = FALSE
    /\ lines = <<>>
    /\ tamper = "none"
    /\ codec_pc = "idle"
    /\ data = <<>>
    /\ decoded = <<>>
    /\ decode_error = ""
    /\ s_decoded = <<>>
    /\ s_decode_error = ""
    /\ \E g \in StreamGrids :
          files = [n \in Filenames |->
                      EncryptTrkBytes(IF n = "TRK_41017.trk.enc" THEN g
                                      ELSE Append(g, WallRow(EngineW, 0)), seed, n)]
    /\ decodes \in [1..NStreams -> {NewDecode(f) : f \in Filenames}]

\* the keystream generators of the streams of the Loader other than stream i
\* that have started
OtherKeystreams(i) ==
    {decodes[j].ks : j \in {k \in 1..NStreams : k # i /\ decodes[k].pc # "new"}}

\* next(stream) on stream i.  The first next() runs the body of
\* _stream_from_encrypted up to its first yield: it makes the keystream
\* generator, reads and decrypts the whole file with it, inflates, checks, and
\* yields the first row; every later next() yields the next row.
Pull(i) ==
    /\ decodes[i].pc \in {"new", "yielding"}
    /\ IF decodes[i].pc = "new"
       THEN LET d == decodes[i]
                ks == Keystream(LoaderSeedKey(seed, d.file), OtherKeystreams(i))
                res == StreamFromEncryptedKs(files[d.file], ks, FALSE, <<>>)
                used == [ks EXCEPT !.pos = @ + Len(files[d.file])]
            IN  decodes' = [decodes EXCEPT ![i] =
                    IF res.error # ""
                    THEN [d EXCEPT !.pc = "raised", !.ks = used, !.err = res.error]
                    ELSE IF res.rows = <<>>
                    THEN [d EXCEPT !.pc = "done", !.ks = used]
                    ELSE [d EXCEPT !.pc = "yielding", !.ks = used,
                                   !.out = <<Head(res.rows)>>,
                                   !.pending = Tail(res.rows)]]
       ELSE LET d == decodes[i]
            IN  decodes' = [decodes EXCEPT ![i] =
                    IF d.pending = <<>>
                    THEN [d EXCEPT !.pc = "done"]
                    ELSE [d EXCEPT !.out = Append(@, Head(d.pending)),
                                   !.pending = Tail(@)]]
    /\ UNCHANGED <<grid, seed, filename, sibling, lines, tamper, codec_pc, data, decoded,
                   decode_error, s_decoded, s_decode_error, files>>
    /\ UNCHANGED <<engineVars, aiVars, studentVars, max_depth>>

NextStreams == \E i \in 1..NStreams : Pull(i)

SpecStreams == InitStreams /\ [][NextStreams]_vars

\* the rows a single undisturbed decode of the file of stream i yields
UndisturbedRows(i) ==
    StreamFromEncrypted(files[decodes[i].file], seed, decodes[i].file, FALSE, <<>>).rows

\* C15: whatever the interleaving of the pulls, and whatever files the other
\* streams of the Loader decode, each stream raises nothing and yields, row
\* after row, the rows a single undisturbed decode of its file yields: what it
\* has yielded so far is a prefix of them, and all of them once it has ended.
C15_StreamsIsolated ==
    \A i \in 1..NStreams :
        LET d == decodes[i]
            ref == UndisturbedRows(i)
        IN  /\ d.pc # "raised"
            /\ Len(d.out) <= Len(ref)
            /\ d.out = SubSeq(ref, 1, Len(d.out))
            /\ (d.pc = "done" => d.out = ref)

\* two streams over the same file of two rows: the second was opened and ended
\* while the first, started before it, still holds its second row
C15_Witness ==
    /\ decodes[1].file = decodes[2].file
    /\ decodes[1].pc = "yielding"
    /\ Len(decodes[1].out) = 1
    /\ Len(decodes[1].pending) = 1
    /\ decodes[2].pc = "done"
    /\ Len(decodes[2].out) = 2

(***************************************************************************)
(* One decode stream pulled row by row, and pulled again after it has       *)
(* ended (SpecPull)                                                        *)
(***************************************************************************)
\* the grids of the file: widths the Loader infers, and widths it does not
PullGrids ==
    UNION {SeqsUpTo({FreeRow(w), WallRow(w, 0)}, MaxStreamRows + 1) : w \in {5, EngineW, 13}}

InitPull ==
    /\ EngineIdle
    /\ max_depth = 0
    /\ AIIdle
    /\ StudentIdle
    /\ grid \in PullGrids
    /\ seed = 41017
    /\ filename = ""
    /\ sibling = FALSE
    /\ lines = <<>>
    /\ tamper = "none"
    /\ codec_pc = "idle"
    /\ data = <<>>
    /\ decoded = <<>>
    /\ decode_error = ""
    /\ s_decoded = <<>>
    /\ s_decode_error = ""
    /\ files = [n \in Filenames |-> EncryptTrkBytes(grid, seed, n)]
    /\ decodes \in [1..NStreams -> {NewDecode(f) : f \in Filenames}]

\* a stream that, pulled after its end, starts again from its first row
ReplayFromStart(d) ==
    IF d.out = <<>> THEN [d EXCEPT !.stops = @ + 1]
    ELSE [d EXCEPT !.pc = "yielding", !.out = Append(@, Head(d.out)),
                   !.pending = Tail(d.out)]

\* next(stream) on a generator whose body has returned: StopIteration again,
\* the generator stays as it is
ExhaustedAgain(d) == [d EXCEPT !.stops = @ + 1]

\* next(stream) on stream i after it has ended
PullExhausted(i) ==
    /\ decodes[i].pc = "done"
    /\ decodes[i].stops < MaxStops
    /\ decodes' = [decodes EXCEPT ![i] = ExhaustedAgain(decodes[i])]
    /\ UNCHANGED <<grid, seed, filename, sibling, lines, tamper, codec_pc, data, decoded,
                   decode_error, s_decoded, s_decode_error, files>>
    /\ UNCHANGED <<engineVars, aiVars, studentVars, max_depth>>

\* the pulls are made on the first stream of the Loader
PullFirst == Pull(1)
PullFirstExhausted == PullExhausted(1)

NextPull == PullFirst \/ PullFirstExhausted

SpecPull == InitPull /\ [][NextPull]_vars

\* the width W the Loader determined for the payload of the file
PullW == InferDefaultWidth(Len(Payload(grid)))

\* the payload cut into rows of width W, in order
PayloadRows == SplitRows(Payload(grid), PullW)

\* C25: a stream that decoded without error yields the rows of the payload in
\* order, each once and each of width W, len(payload) / W rows in all (the
\* rows of the encoded grid when W is its width); once it has reported
\* exhaustion every further pull reports exhaustion and yields nothing.
C25_RowsOnceThenExhausted ==
    LET d == decodes[1]
    IN  d.pc \in {"yielding", "done"} =>
            /\ Len(d.out) <= Len(PayloadRows)
            /\ d.out = SubSeq(PayloadRows, 1, Len(d.out))
            /\ \A k \in 1..Len(d.out) : Len(d.out[k]) = PullW
            /\ d.out \o d.pending = PayloadRows
            /\ Len(PayloadRows) * PullW = Len(Payload(grid))
            /\ ((grid # <<>> /\ PullW = Len(grid[1])) => PayloadRows = grid)
            /\ (d.pc = "done" => d.out = PayloadRows)
            /\ (d.stops > 0 => d.pc = "done")

\* a stream of three rows of width 13, not all equal, that yielded them and
\* was then pulled twice more
C25_Witness ==
    /\ decodes[1].pc = "done"
    /\ decodes[1].stops = 2
    /\ Len(decodes[1].out) = 3
    /\ Len(decodes[1].out[1]) = 13
    /\ decodes[1].out[1] # decodes[1].out[3]
    /\ decodes[1].out = grid

(***************************************************************************)
(* The student engine (student/Engine.py), dodge counting, under an         *)
(* arbitrary planner (SpecStudent)                                          *)
(***************************************************************************)
\* student Engine.W, Engine.H
StudentW == 13
StudentH == 8

\* the rows of the streams: free, one '#' at column 3, one gap at column 3
StudentRows == {FreeRow(StudentW), WallRow(StudentW, 3), GapRow(StudentW, 3)}

\* the streams: fewer rows than the prefill needs, or H - 1 equal rows followed
\* by up to MaxRows further rows
StudentStreams ==
    SeqsUpTo(StudentRows, MaxRows)
        \cup {[k \in 1..(StudentH - 1) |-> r] \o tail :
                 r \in StudentRows, tail \in SeqsUpTo(StudentRows, MaxRows)}

\* the start_x arguments: the default and the right wall
StudentStartXs == {3, StudentW - 1}

\* '#' in row
HasObstacle(row) == \E k \in 1..Len(row) : row[k] = "#"

\* Engine.step_collision's row[x], with Python's indexing
StepCell(row, cx) == RowAt(row, cx)

\* if move not in (-1, 0, 1): move = 0
StudentCoerce(move) == IF move \in {-1, 0, 1} THEN move ELSE 0

\* x = max(0, min(self.W - 1, x + move))
StudentClamp(cx, move) == Max(0, Min(StudentW - 1, cx + move))

InitStudent ==
    /\ EngineIdle
    /\ max_depth = 0
    /\ AIIdle
    /\ CodecIdle
    /\ s_stream \in StudentStreams
    /\ s_start_x \in StudentStartXs
    /\ s_pc = "prefill"
    /\ s_buffer = <<>>
    /\ s_it = 0
    /\ s_x = 0
    /\ dodges = 0
    /\ s_cols = <<>>
    /\ s_outcome = "none"

\* run_game up to the loop: dodges = 0, x = start_x, prefill the buffer
Prefill ==
    /\ s_pc = "prefill"
    /\ s_x' = s_start_x
    /\ IF Len(s_stream) < StudentH
       THEN \* next(stream) raises StopIteration: return dodges
            /\ s_buffer' = s_stream
            /\ s_it' = Len(s_stream)
            /\ s_pc' = "done"
            /\ s_outcome' = "Exhausted"
       ELSE /\ s_buffer' = SubSeq(s_stream, 1, StudentH)
            /\ s_it' = StudentH
            /\ s_pc' = "running"
            /\ s_outcome' = "none"
    /\ UNCHANGED <<s_stream, s_start_x, dodges, s_cols>>
    /\ UNCHANGED <<engineVars, aiVars, codecVars, max_depth>>

\* One iteration of the loop, the planner call having produced r
StudentTick(r) ==
    /\ s_pc = "running"
    /\ IF r.raised
       THEN \* ai_func raises: nothing catches it, the exception leaves run_game
            /\ s_pc' = "done"
            /\ s_outcome' = "PlannerRaised"
            /\ UNCHANGED <<s_buffer, s_it, s_x, dodges, s_cols>>
       ELSE LET move == StudentCoerce(r.value)
                nx == StudentClamp(s_x, move)
                last == s_buffer[Len(s_buffer)]
            IN  /\ s_x' = nx
                /\ s_cols' = Append(s_cols, nx)
                /\ IF s_it >= Len(s_stream)
                   THEN \* next(stream) raises StopIteration: return dodges
                        /\ s_pc' = "done"
                        /\ s_outcome' = "Exhausted"
                        /\ UNCHANGED <<s_buffer, s_it, dodges>>
                   ELSE /\ s_it' = s_it + 1
                        /\ IF HasObstacle(last) /\ StepCell(last, nx) = "!"
                           THEN \* row[x] raises IndexError out of run_game
                                /\ s_pc' = "done"
                                /\ s_outcome' = "IndexError"
                                /\ UNCHANGED <<s_buffer, dodges>>
                           ELSE IF HasObstacle(last) /\ StepCell(last, nx) = "#"
                           THEN \* collision: return dodges
                                /\ s_pc' = "done"
                                /\ s_outcome' = "Crashed"
                                /\ UNCHANGED <<s_buffer, dodges>>
                           ELSE /\ dodges' = IF HasObstacle(last) THEN dodges + 1 ELSE dodges
                                /\ s_buffer' = Append(Tail(s_buffer), s_stream[s_it + 1])
                                /\ s_pc' = "running"
                                /\ s_outcome' = "none"
    /\ UNCHANGED <<s_stream, s_start_x>>
    /\ UNCHANGED <<engineVars, aiVars, codecVars, max_depth>>

\* a tick with an arbitrary planner
StudentTickAny == \E r \in PlannerResults : StudentTick(r)

NextStudent == Prefill \/ StudentTickAny

SpecStudent == InitStudent /\ [][NextStudent]_vars

\* C17: when the run returns its counter, the counter equals the number of
\* stream rows that contain at least one '#' and that the car entered without
\* colliding: on its t-th tick the car enters row t, the row at the front of the
\* window, at the column it has after that tick's move.
C17_DodgesCountEnteredRows ==
    (s_pc = "done" /\ s_outcome \in {"Exhausted", "Crashed"})
        => dodges = Cardinality({t \in 1..Len(s_cols) :
                                    /\ HasObstacle(s_stream[t])
                                    /\ RowAt(s_stream[t], s_cols[t]) # "#"})
\* C22: in dodge-counting mode a tick on which the planner raises or returns
\* a value outside {-1, 0, 1} is played as Stay (the column is unchanged) and
\* the run goes on or ends in a normal return of the counter: the fault never
\* leaves run_game.
C22_StudentFaultIsStay ==
    [][\A r \in PlannerResults :
          ((r.raised \/ r.value \notin {-1, 0, 1}) /\ StudentTick(r))
              => /\ s_x' = s_x
                 /\ s_outcome' \in {"none", "Exhausted", "Crashed"}]_vars

====
